---------------------------- MODULE Spec2Model ----------------------------
(***************************************************************************)
(* A model of pachinko (src/pachinko/main.py): a command-line inventory    *)
(* tracker that files items into the bins of named locations.              *)
(*                                                                         *)
(* Strings are sequences of one-character strings.  The qualia store is a  *)
(* sequence of records in insertion order plus the journal of its commits. *)
(* Weights are kept in half units so that M (1.5) stays an integer.        *)
(***************************************************************************)
EXTENDS Integers, Sequences, FiniteSets, TLC

(***************************************************************************)
(* Bounds of the model.                                                    *)
(***************************************************************************)
MaxLocations == 2
MaxItems == 2
MaxBins == 2
MaxSuffixLen == 3
MaxLines == 2
MaxLineLen == 4

(***************************************************************************)
(* Characters and strings.                                                 *)
(***************************************************************************)
Digits == {"0", "1", "2", "3"}

\* Python's ord() on the characters the model uses.
Ord(c) ==
    CASE c = " " -> 32
      [] c = "/" -> 47
      [] c = "0" -> 48
      [] c = "1" -> 49
      [] c = "2" -> 50
      [] c = "3" -> 51
      [] c = "B" -> 66
      [] c = "L" -> 76
      [] c = "M" -> 77
      [] c = "S" -> 83
      [] c = "X" -> 88
      [] c = "a" -> 97
      [] c = "b" -> 98
      [] c = "l" -> 108
      [] c = "m" -> 109
      [] c = "s" -> 115
      [] c = "x" -> 120

\* str.lower() on one character.
LowerChar(c) ==
    CASE c = "B" -> "b"
      [] c = "L" -> "l"
      [] c = "M" -> "m"
      [] c = "S" -> "s"
      [] c = "X" -> "x"
      [] OTHER -> c

\* str.lower()
Lower(s) == [i \in 1..Len(s) |-> LowerChar(s[i])]

\* Python's s < t on strings: lexicographic on code points, a proper prefix
\* being smaller.
RECURSIVE StrLess(_, _)
StrLess(s, t) ==
    IF t = <<>> THEN FALSE
    ELSE IF s = <<>> THEN TRUE
    ELSE IF Ord(s[1]) < Ord(t[1]) THEN TRUE
    ELSE IF Ord(s[1]) > Ord(t[1]) THEN FALSE
    ELSE StrLess(Tail(s), Tail(t))

\* int() on a string of decimal digits.
RECURSIVE ToInt(_)
ToInt(s) ==
    IF s = <<>> THEN 0
    ELSE 10 * ToInt(SubSeq(s, 1, Len(s) - 1)) + (Ord(s[Len(s)]) - 48)

\* All strings over the characters cs of length at most n.
RECURSIVE StringsUpTo(_, _)
StringsUpTo(cs, n) ==
    IF n = 0 THEN {<<>>}
    ELSE LET shorter == StringsUpTo(cs, n - 1)
         IN  shorter \cup {Append(s, c) : s \in shorter, c \in cs}

(***************************************************************************)
(* State.                                                                  *)
(***************************************************************************)
VARIABLES
    objects,    \* the store's records, in insertion order
    journal,    \* the store's commits: the length of objects at each commit
    pc,         \* "Ready", or where a quickadd session stands
    session,    \* the quickadd session: its address, its input and progress
    last,       \* the last command, its error and how its bin was chosen
    out         \* the rows the last command printed

vars == <<objects, journal, pc, session, last, out>>

(***************************************************************************)
(* The store (qualia), as main.py uses it.                                 *)
(***************************************************************************)
\* The identifier the store gives the next record.
NextObjectId(objs) ==
    IF objs = <<>> THEN 1
    ELSE 1 + CHOOSE m \in {objs[i].object_id : i \in 1..Len(objs)} :
                 \A j \in 1..Len(objs) : objs[j].object_id <= m

\* store.add(**record)
StoreAdd(objs, record) ==
    Append(objs, [object_id |-> NextObjectId(objs)] @@ record)

\* store.commit()
StoreCommit(jrnl, objs) == Append(jrnl, Len(objs))

\* The records that are committed after the commits of jrnl.
Committed(jrnl, objs) ==
    SubSeq(objs, 1, IF jrnl = <<>> THEN 0 ELSE jrnl[Len(jrnl)])

\* store.undo(): drop the most recent commit.
StoreUndoJournal(jrnl) ==
    IF jrnl = <<>> THEN jrnl ELSE SubSeq(jrnl, 1, Len(jrnl) - 1)

StoreUndo(jrnl, objs) == Committed(StoreUndoJournal(jrnl), objs)

\* store.select(type = 'location')
SelectLocations(objs) == SelectSeq(objs, LAMBDA o : o.type = "location")

\* store.select(type = 'item')
SelectItems(objs) == SelectSeq(objs, LAMBDA o : o.type = "item")

\* store.select(type = 'item', location_id = id)
SelectItemsAt(objs, id) ==
    SelectSeq(objs, LAMBDA o : o.type = "item" /\ o.location_id = id)

\* store.query(EqualityQuery('object_id', id))
QueryObjectId(objs, id) == SelectSeq(objs, LAMBDA o : o.object_id = id)

\* The words of a string: its maximal runs of characters other than space.
RECURSIVE Words(_)
Words(s) ==
    IF s = <<>> THEN <<>>
    ELSE IF s[1] = " " THEN Words(Tail(s))
    ELSE LET n == CHOOSE k \in 1..Len(s) :
                      /\ \A i \in 1..k : s[i] # " "
                      /\ (k = Len(s) \/ s[k + 1] = " ")
         IN  <<SubSeq(s, 1, n)>> \o Words(SubSeq(s, n + 1, Len(s)))

\* PhraseQuery('name', phrase): the words of the phrase occur in the value,
\* in order and next to each other.
PhraseMatch(value, phrase) ==
    LET v == Words(value)
        p == Words(phrase)
    IN  /\ p # <<>>
        /\ \E i \in 0..Len(v) :
               /\ i + Len(p) <= Len(v)
               /\ SubSeq(v, i + 1, i + Len(p)) = p

\* store.query(AndQueries(EqualityQuery('type', 'location'),
\*                        PhraseQuery('name', location_name)))
QueryLocationsNamed(objs, location_name) ==
    SelectSeq(objs,
        LAMBDA o : o.type = "location" /\ PhraseMatch(o.name, location_name))

(***************************************************************************)
(* SIZE_KEY, in half units: S = 1, M = 1.5, L = 2, X = 3.                  *)
(***************************************************************************)
SIZE_KEY == [S |-> 2, M |-> 3, L |-> 4, X |-> 6]

Sizes == {"S", "M", "L", "X"}

(***************************************************************************)
(* _find_bin                                                               *)
(***************************************************************************)
\* bin_weights after the loop over the items of the location.
RECURSIVE BinWeights(_, _)
BinWeights(items, num_bins) ==
    IF items = <<>> THEN [bin_no \in 1..num_bins |-> 0]
    ELSE LET item == items[Len(items)]
             before == BinWeights(SubSeq(items, 1, Len(items) - 1), num_bins)
         IN  [before EXCEPT ![item.bin_no] = @ + SIZE_KEY[item.size]]

\* A balancer that counts the items of a bin instead of weighing them.
FindBinByCount(objs, location, size) ==
    LET items == SelectItemsAt(objs, location.object_id)
        count == [b \in 1..location.num_bins |->
                     Cardinality({i \in 1..Len(items) : items[i].bin_no = b})]
    IN  {bin_no \in 1..location.num_bins :
            \A b \in 1..location.num_bins : count[bin_no] <= count[b]}

\* A balancer that takes max for min: it fills the heaviest bin.
FindBinHeaviest(objs, location, size) ==
    LET bin_weights ==
            BinWeights(SelectItemsAt(objs, location.object_id), location.num_bins)
        max_weight ==
            CHOOSE w \in {bin_weights[b] : b \in DOMAIN bin_weights} :
                \A b \in DOMAIN bin_weights : w >= bin_weights[b]
    IN  {bin_no \in DOMAIN bin_weights : bin_weights[bin_no] = max_weight}

\* The bins random.choice picks among.
FindBin(objs, location, size) ==
    LET bin_weights ==
            BinWeights(SelectItemsAt(objs, location.object_id), location.num_bins)
        min_weight ==
            CHOOSE w \in {bin_weights[b] : b \in DOMAIN bin_weights} :
                \A b \in DOMAIN bin_weights : w <= bin_weights[b]
    IN  {bin_no \in DOMAIN bin_weights : bin_weights[bin_no] = min_weight}

(***************************************************************************)
(* LocationBinParamType.convert                                            *)
(***************************************************************************)
\* A group that did not take part in the match (None); a bin that matched
\* is never empty.
None == <<>>

NoLocation == [type |-> "none", object_id |-> 0, name |-> <<>>, num_bins |-> 0]

\* The length of the longest prefix of s made of characters of cs.
Span(s, cs) ==
    CHOOSE k \in 0..Len(s) :
        /\ \A i \in 1..k : s[i] \in cs
        /\ (k = Len(s) \/ s[k + 1] \notin cs)

\* The characters of s.
Chars(s) == {s[i] : i \in 1..Len(s)}

\* re.match("([^/]+)(?:\/([1-9]\d*))?", value): anchored at the start only.
MatchAddress(value) ==
    LET n == Span(value, Chars(value) \ {"/"})
        rest == SubSeq(value, n + 1, Len(value))
        hasBin == /\ Len(rest) >= 2
                  /\ rest[1] = "/"
                  /\ rest[2] \in Digits \ {"0"}
        digits == SubSeq(rest, 2, Len(rest))
    IN  [matched |-> n >= 1,
         location_name |-> SubSeq(value, 1, n),
         bin |-> IF n >= 1 /\ hasBin
                 THEN SubSeq(digits, 1, Span(digits, Digits))
                 ELSE None]

Failure(err) == [err |-> err, location |-> NoLocation, bin |-> None]

\* A resolver that does not compare the bin with num_bins.
convertWithoutRange(objs, value) ==
    LET match == MatchAddress(value)
        locations == QueryLocationsNamed(objs, match.location_name)
    IN  IF ~match.matched THEN Failure("Syntax")
        ELSE IF Len(locations) = 0 THEN Failure("NotFound")
        ELSE IF Len(locations) > 1 THEN Failure("Ambiguous")
        ELSE [err |-> "none", location |-> locations[1], bin |-> match.bin]

\* A resolver that lets the bin after the last one pass.
convertOffByOne(objs, value) ==
    LET match == MatchAddress(value)
        locations == QueryLocationsNamed(objs, match.location_name)
    IN  IF ~match.matched THEN Failure("Syntax")
        ELSE IF Len(locations) = 0 THEN Failure("NotFound")
        ELSE IF Len(locations) > 1 THEN Failure("Ambiguous")
        ELSE IF match.bin # None /\ ToInt(match.bin) > locations[1].num_bins + 1
             THEN Failure("BinRange")
        ELSE [err |-> "none", location |-> locations[1], bin |-> match.bin]

\* A resolver that takes the first of several matching locations.
convertFirstMatch(objs, value) ==
    LET match == MatchAddress(value)
        locations == QueryLocationsNamed(objs, match.location_name)
    IN  IF ~match.matched THEN Failure("Syntax")
        ELSE IF Len(locations) = 0 THEN Failure("NotFound")
        ELSE IF match.bin # None /\ ToInt(match.bin) > locations[1].num_bins
             THEN Failure("BinRange")
        ELSE [err |-> "none", location |-> locations[1], bin |-> match.bin]

convert(objs, value) ==
    LET match == MatchAddress(value)
        locations == QueryLocationsNamed(objs, match.location_name)
    IN  IF ~match.matched THEN Failure("Syntax")
        ELSE IF Len(locations) = 0 THEN Failure("NotFound")
        ELSE IF Len(locations) > 1 THEN Failure("Ambiguous")
        ELSE IF match.bin # None /\ ToInt(match.bin) > locations[1].num_bins
             THEN Failure("BinRange")
        ELSE [err |-> "none", location |-> locations[1], bin |-> match.bin]

(***************************************************************************)
(* The inputs the commands are given.                                      *)
(***************************************************************************)
LocationNames == {<<"a">>, <<"a", " ", "b">>}

\* NAME and SIZE arguments given to add: every size, names that differ in
\* case, two items that differ in size only and two that differ in name
\* only.  "Q" is a size that click.Choice rejects.
ItemArgs ==
    { <<<<"a">>, "S">>, <<<<"B">>, "S">>, <<<<"B">>, "M">>, <<<<"a">>, "L">>,
      <<<<"B">>, "X">>, <<<<"a">>, "Q">> }

\* NUMBER_OF_BINS arguments: 0 is rejected by click.IntRange(min = 1).
NumBinsArgs == 0..MaxBins

\* LOCATION[/BIN] arguments given to the commands.
AddressArgs ==
    { <<"a">>, <<"b">>, <<"a", "/", "1">>, <<"b", "/", "2">>,
      <<"a", "/", "3">>, <<"a", "/", "0">>, <<"/", "1">> }

\* LOCATION[/BIN] arguments given to quickadd.
QuickAddressArgs ==
    { <<"a">>, <<"b", "/", "2">>, <<"a", "/", "3">>, <<"/", "1">> }

\* Every address made of a name part and of up to MaxSuffixLen further
\* characters: the addresses the resolver is examined on in each store.
AddressSuffixes ==
    {s \in StringsUpTo(Digits \cup {"/", "a"}, MaxSuffixLen) :
        s = <<>> \/ s[1] = "/"}

Addresses ==
    {n \o s : n \in {<<>>, <<"a">>, <<"b">>, <<"a", " ", "b">>},
              s \in AddressSuffixes}

\* The lines a quickadd session may read, and its whole input.
InputLines == {<<>>, <<"a">>, <<"B", " ", "X">>}

Inputs == UNION {[1..n -> InputLines] : n \in 0..MaxLines}

(***************************************************************************)
(* The commands.                                                           *)
(***************************************************************************)
\* No session: start is the number of records in the store when the session
\* began, pos the number of lines read and made the number of items created.
NoSession ==
    [location |-> NoLocation, bin |-> None, stdin |-> <<>>, start |-> 0,
     pos |-> 0, made |-> 0]

\* What is kept of a command: its name, its LOCATION[/BIN] argument if it has
\* one, its error if it failed, and whether the balancer chooses its bins.
Result(cmd, arg, err, auto) == [cmd |-> cmd, arg |-> arg, err |-> err, auto |-> auto]

Init ==
    /\ objects = <<>>
    /\ journal = <<>>
    /\ pc = "Ready"
    /\ session = NoSession
    /\ last = Result("none", <<>>, "none", FALSE)
    /\ out = <<>>

\* A command starts when no quickadd session is reading its input.
AtPrompt == pc \in {"Ready", "Terminated"}

\* A command fails in click, before its callback runs.
Fails(cmd, arg, err) ==
    /\ last' = Result(cmd, arg, err, FALSE)
    /\ out' = <<>>
    /\ pc' = "Ready"
    /\ session' = NoSession
    /\ UNCHANGED <<objects, journal>>

\* undo
undo ==
    /\ AtPrompt
    /\ objects' = StoreUndo(journal, objects)
    /\ journal' = StoreUndoJournal(journal)
    /\ last' = Result("undo", <<>>, "none", FALSE)
    /\ out' = <<>>
    /\ pc' = "Ready"
    /\ session' = NoSession

Location(name, number_of_bins) ==
    [type |-> "location", name |-> name, num_bins |-> number_of_bins]

\* A range that starts at 0: click.IntRange(min = 0).
ValidNumberOfBinsFromZero(number_of_bins) == number_of_bins >= 0

\* click.IntRange(min = 1)
ValidNumberOfBins(number_of_bins) == number_of_bins >= 1

\* An add-location that refuses a name a stored location has.
add_locationOnce(name, number_of_bins) ==
    /\ AtPrompt
    /\ IF \/ ~ValidNumberOfBins(number_of_bins)
          \/ \E i \in 1..Len(SelectLocations(objects)) :
                 SelectLocations(objects)[i].name = name
       THEN Fails("add-location", <<>>, "Validation")
       ELSE /\ Len(SelectLocations(objects)) < MaxLocations
            /\ objects' = StoreAdd(objects, Location(name, number_of_bins))
            /\ journal' = StoreCommit(journal, objects')
            /\ last' = Result("add-location", <<>>, "none", FALSE)
            /\ out' = <<>>
            /\ pc' = "Ready"
            /\ session' = NoSession

\* add-location NAME NUMBER_OF_BINS
add_location(name, number_of_bins) ==
    /\ AtPrompt
    /\ IF ~ValidNumberOfBins(number_of_bins)
       THEN Fails("add-location", <<>>, "Validation")
       ELSE /\ Len(SelectLocations(objects)) < MaxLocations
            /\ objects' = StoreAdd(objects, Location(name, number_of_bins))
            /\ journal' = StoreCommit(journal, objects')
            /\ last' = Result("add-location", <<>>, "none", FALSE)
            /\ out' = <<>>
            /\ pc' = "Ready"
            /\ session' = NoSession

\* locations
locations ==
    /\ AtPrompt
    /\ out' = [i \in 1..Len(SelectLocations(objects)) |->
                  [name |-> SelectLocations(objects)[i].name,
                   num_bins |-> SelectLocations(objects)[i].num_bins]]
    /\ last' = Result("locations", <<>>, "none", FALSE)
    /\ pc' = "Ready"
    /\ session' = NoSession
    /\ UNCHANGED <<objects, journal>>

\* An item that keeps another field of the location as its location_id.
ItemWithWrongId(location, bin_no, name, size) ==
    [type |-> "item", location_id |-> location.num_bins, bin_no |-> bin_no,
     name |-> name, size |-> size]

Item(location, bin_no, name, size) ==
    [type |-> "item", location_id |-> location.object_id, bin_no |-> bin_no,
     name |-> name, size |-> size]

\* The dictionary print_item is given.
Row(location_name, item) ==
    [location_name |-> location_name, item_bin_no |-> item.bin_no,
     item_name |-> item.name, item_size |-> item.size]

\* str() on a natural number, as the format of print_item writes bin_no.
RECURSIVE Str(_)
Str(n) ==
    LET digit(d) == <<"0", "1", "2", "3", "4", "5", "6", "7", "8", "9">>[d + 1]
    IN  IF n < 10 THEN <<digit(n)>> ELSE Append(Str(n \div 10), digit(n % 10))

\* The line print_item prints:
\* '{location_name}/{item_bin_no}: {item_name} ({item_size})'.
print_item(row) ==
    row.location_name \o <<"/">> \o Str(row.item_bin_no) \o <<":", " ">>
        \o row.item_name \o <<" ", "(", row.item_size, ")">>

\* An add that takes the first bin when no BIN is given.
BinForFirstBin(objs, location, bin, size) ==
    IF bin = None THEN {1} ELSE {ToInt(bin)}

\* The bins the item may go to: the given one, or the balancer's choice.
BinFor(objs, location, bin, size) ==
    IF bin = None THEN FindBin(objs, location, size) ELSE {ToInt(bin)}

\* A callback that adds and prints the item and leaves out store.commit().
addWithoutCommit(location, bin, name, size, printed) ==
    \E bin_no \in BinFor(objects, location, bin, size) :
        LET item == Item(location, bin_no, name, size)
        IN  /\ objects' = StoreAdd(objects, item)
            /\ journal' = journal
            /\ out' = Append(printed, Row(location.name, item))

\* The callback of add: one item added, committed and printed after the
\* lines printed so far.
add(location, bin, name, size, printed) ==
    \E bin_no \in BinFor(objects, location, bin, size) :
        LET item == Item(location, bin_no, name, size)
        IN  /\ objects' = StoreAdd(objects, item)
            /\ journal' = StoreCommit(journal, objects')
            /\ out' = Append(printed, Row(location.name, item))

\* An add that checks SIZE after it has stored the item.
AddCommandChecksLate(value, name, size) ==
    LET location_bin == convert(objects, value)
    IN  /\ AtPrompt
        /\ IF location_bin.err # "none" THEN Fails("add", value, location_bin.err)
           ELSE /\ Len(SelectItems(objects)) < MaxItems
                /\ add(location_bin.location, location_bin.bin, name, size, <<>>)
                /\ last' = Result("add", value,
                                  IF size \notin Sizes THEN "Validation" ELSE "none",
                                  location_bin.bin = None)
                /\ pc' = "Ready"
                /\ session' = NoSession

\* add LOCATION[/BIN] NAME [SIZE]
AddCommand(value, name, size) ==
    LET location_bin == convert(objects, value)
    IN  /\ AtPrompt
        /\ IF location_bin.err # "none" THEN Fails("add", value, location_bin.err)
           ELSE IF size \notin Sizes THEN Fails("add", value, "Validation")
           ELSE /\ Len(SelectItems(objects)) < MaxItems
                /\ add(location_bin.location, location_bin.bin, name, size, <<>>)
                /\ last' = Result("add", value, "none", location_bin.bin = None)
                /\ pc' = "Ready"
                /\ session' = NoSession

(***************************************************************************)
(* quickadd                                                                *)
(***************************************************************************)
\* The pattern with \s* for \s+: the size letter needs no white space
\* before it.
MatchLineOptionalSpace(line) ==
    LET n == Len(line)
        matched == n >= 1 /\ line[n] \in Sizes
        name == IF matched
                THEN SubSeq(line, 1,
                        CHOOSE k \in 0..(n - 1) :
                            /\ \A i \in (k + 1)..(n - 1) : line[i] = " "
                            /\ (k = 0 \/ line[k] # " "))
                ELSE line
    IN  [matched |-> matched, item |-> name,
         size |-> IF matched THEN line[n] ELSE "S"]

\* re.match("(.*?)\s+([SMLX])$", item): the shortest start of the line that
\* is followed by white space and one size letter at the end of the line.
MatchLine(line) ==
    LET n == Len(line)
        matched == /\ n >= 2
                   /\ line[n] \in Sizes
                   /\ line[n - 1] = " "
        name == IF matched
                THEN SubSeq(line, 1,
                        CHOOSE k \in 0..(n - 2) :
                            /\ \A i \in (k + 1)..(n - 1) : line[i] = " "
                            /\ (k = 0 \/ line[k] # " "))
                ELSE line
    IN  [matched |-> matched, item |-> name,
         size |-> IF matched THEN line[n] ELSE "S"]

\* quickadd LOCATION[/BIN], reading the lines of stdin
QuickAddCommand(value, stdin) ==
    LET location_bin == convert(objects, value)
    IN  /\ AtPrompt
        /\ IF location_bin.err # "none" THEN Fails("quickadd", value, location_bin.err)
           ELSE /\ Len(SelectItems(objects)) + Len(stdin) <= MaxItems
                /\ pc' = "Prompting"
                /\ session' = [location |-> location_bin.location,
                               bin |-> location_bin.bin,
                               stdin |-> stdin, start |-> Len(objects),
                               pos |-> 0, made |-> 0]
                /\ last' = Result("quickadd", value, "none", location_bin.bin = None)
                /\ out' = <<>>
                /\ UNCHANGED <<objects, journal>>

\* input(prompt) raises EOFError
QuickAddEof ==
    /\ pc = "Prompting"
    /\ session.pos = Len(session.stdin)
    /\ pc' = "Terminated"
    /\ UNCHANGED <<objects, journal, session, last, out>>

\* A loop that reads on after an empty line.
QuickAddSkipsEmptyLine ==
    /\ pc = "Prompting"
    /\ session.pos < Len(session.stdin)
    /\ session.stdin[session.pos + 1] = <<>>
    /\ session' = [session EXCEPT !.pos = @ + 1]
    /\ UNCHANGED <<objects, journal, pc, last, out>>

\* input(prompt) returns the empty line
QuickAddEmptyLine ==
    /\ pc = "Prompting"
    /\ session.pos < Len(session.stdin)
    /\ session.stdin[session.pos + 1] = <<>>
    /\ pc' = "Terminated"
    /\ session' = [session EXCEPT !.pos = @ + 1]
    /\ UNCHANGED <<objects, journal, last, out>>

\* A turn of the loop that balances over the store as the session found it.
QuickAddLineBalancedAtStart ==
    /\ pc = "Prompting"
    /\ session.pos < Len(session.stdin)
    /\ session.stdin[session.pos + 1] # <<>>
    /\ LET match == MatchLine(session.stdin[session.pos + 1])
       IN  \E bin_no \in BinFor(SubSeq(objects, 1, session.start),
                                session.location, session.bin, match.size) :
               LET item == Item(session.location, bin_no, match.item, match.size)
               IN  /\ objects' = StoreAdd(objects, item)
                   /\ journal' = StoreCommit(journal, objects')
                   /\ out' = Append(out, Row(session.location.name, item))
    /\ session' = [session EXCEPT !.pos = @ + 1, !.made = @ + 1]
    /\ UNCHANGED <<pc, last>>

\* A turn of the loop that adds the item and leaves the commit for later.
QuickAddLineWithoutCommit ==
    /\ pc = "Prompting"
    /\ session.pos < Len(session.stdin)
    /\ session.stdin[session.pos + 1] # <<>>
    /\ LET match == MatchLine(session.stdin[session.pos + 1])
       IN  \E bin_no \in BinFor(objects, session.location, session.bin, match.size) :
               LET item == Item(session.location, bin_no, match.item, match.size)
               IN  /\ objects' = StoreAdd(objects, item)
                   /\ journal' = journal
                   /\ out' = Append(out, Row(session.location.name, item))
    /\ session' = [session EXCEPT !.pos = @ + 1, !.made = @ + 1]
    /\ UNCHANGED <<pc, last>>

\* input(prompt) returns a line that is not empty: one turn of the loop
QuickAddLine ==
    /\ pc = "Prompting"
    /\ session.pos < Len(session.stdin)
    /\ session.stdin[session.pos + 1] # <<>>
    /\ LET match == MatchLine(session.stdin[session.pos + 1])
       IN  add(session.location, session.bin, match.item, match.size, out)
    /\ session' = [session EXCEPT !.pos = @ + 1, !.made = @ + 1]
    /\ UNCHANGED <<pc, last>>

(***************************************************************************)
(* items                                                                   *)
(***************************************************************************)
\* A sort key that keeps the case of the item name.
KeyCaseSensitive(row) == <<row.location_name, row.item_bin_no, row.item_name>>

\* The sort key of a row.
Key(row) == <<row.location_name, row.item_bin_no, Lower(row.item_name)>>

\* Python's k1 < k2 on the key tuples.
KeyLess(k1, k2) ==
    \/ StrLess(k1[1], k2[1])
    \/ k1[1] = k2[1] /\ k1[2] < k2[2]
    \/ k1[1] = k2[1] /\ k1[2] = k2[2] /\ StrLess(k1[3], k2[3])

\* sorted(rows, key = Key): a stable sort.
RECURSIVE sorted(_)
sorted(rows) ==
    IF rows = <<>> THEN <<>>
    ELSE LET row == rows[Len(rows)]
             front == sorted(SubSeq(rows, 1, Len(rows) - 1))
             k == Cardinality({i \in 1..Len(front) :
                                  ~KeyLess(Key(row), Key(front[i]))})
         IN  SubSeq(front, 1, k) \o <<row>> \o SubSeq(front, k + 1, Len(front))

\* The rows items collects: each item joined with its location.
ItemRows(objs) ==
    [i \in 1..Len(SelectItems(objs)) |->
        LET item == SelectItems(objs)[i]
            location == QueryObjectId(objs, item.location_id)[1]
        IN  Row(location.name, item)]

\* A listing that ends with a store.commit().
itemsThenCommit ==
    /\ AtPrompt
    /\ out' = sorted(ItemRows(objects))
    /\ last' = Result("items", <<>>, "none", FALSE)
    /\ pc' = "Ready"
    /\ session' = NoSession
    /\ objects' = objects
    /\ journal' = StoreCommit(journal, objects)

\* items
items ==
    /\ AtPrompt
    /\ out' = sorted(ItemRows(objects))
    /\ last' = Result("items", <<>>, "none", FALSE)
    /\ pc' = "Ready"
    /\ session' = NoSession
    /\ UNCHANGED <<objects, journal>>

(***************************************************************************)
(* The specification.                                                      *)
(***************************************************************************)
Next ==
    \/ undo
    \/ \E name \in LocationNames, n \in NumBinsArgs : add_location(name, n)
    \/ locations
    \/ \E value \in AddressArgs, item \in ItemArgs :
           AddCommand(value, item[1], item[2])
    \/ \E value \in QuickAddressArgs, stdin \in Inputs :
           QuickAddCommand(value, stdin)
    \/ QuickAddEof
    \/ QuickAddEmptyLine
    \/ QuickAddLine
    \/ items

Spec == Init /\ [][Next]_vars

\* The session's loop keeps running until it ends.
FairSpec ==
    Spec /\ WF_vars(QuickAddEof) /\ WF_vars(QuickAddEmptyLine) /\ WF_vars(QuickAddLine)

(***************************************************************************)
(* The intake loop of quickadd on any line: the session that quickadd a    *)
(* starts right after add-location a NUMBER_OF_BINS, with one line of      *)
(* input.                                                                  *)
(***************************************************************************)
LineChars == {"a", " ", "S", "X"}

Lines == StringsUpTo(LineChars, MaxLineLen)

IntakeInit ==
    \E number_of_bins \in 1..MaxBins, line \in Lines :
        /\ objects = StoreAdd(<<>>, Location(<<"a">>, number_of_bins))
        /\ journal = StoreCommit(<<>>, objects)
        /\ pc = "Prompting"
        /\ session = [location |-> objects[1], bin |-> None,
                      stdin |-> <<line>>, start |-> Len(objects),
                      pos |-> 0, made |-> 0]
        /\ last = Result("quickadd", <<"a">>, "none", TRUE)
        /\ out = <<>>

IntakeNext ==
    \/ QuickAddEof
    \/ QuickAddEmptyLine
    \/ QuickAddLine

IntakeSpec == IntakeInit /\ [][IntakeNext]_vars

(***************************************************************************)
(* Vocabulary of the properties.                                           *)
(***************************************************************************)
\* The accumulated weight of a bin: the weights of the items stored in it.
RECURSIVE SumOfWeights(_)
SumOfWeights(stored) ==
    IF stored = <<>> THEN 0
    ELSE SIZE_KEY[stored[1].size] + SumOfWeights(Tail(stored))

WeightOfBin(objs, location, bin_no) ==
    SumOfWeights(SelectSeq(objs,
        LAMBDA o : /\ o.type = "item"
                   /\ o.location_id = location.object_id
                   /\ o.bin_no = bin_no))

\* bin_no is a bin of the location that no other bin of it is lighter than.
LightestBin(objs, location, bin_no) ==
    /\ bin_no \in 1..location.num_bins
    /\ \A other \in 1..location.num_bins :
           WeightOfBin(objs, location, bin_no) <= WeightOfBin(objs, location, other)

StoredLocations == {objects[i] : i \in {j \in 1..Len(objects) : objects[j].type = "location"}}

StoredItems == {objects[i] : i \in {j \in 1..Len(objects) : objects[j].type = "item"}}

\* The store before its last record was added.
Before(objs) == SubSeq(objs, 1, Len(objs) - 1)

\* The last command was an add that let the balancer choose the bin.
BalancedAdd == last.cmd = "add" /\ last.err = "none" /\ last.auto

\* C1: for every location and every set of items stored at it, every bin
\* the balancer may return is a bin of the location whose accumulated weight
\* is at most that of every other bin, whatever the requested size; and the
\* item an add without BIN has just stored went to such a bin of the store
\* as it was before.
C1_BalancerPicksLightestBin ==
    /\ \A location \in StoredLocations : \A size \in Sizes :
           /\ FindBin(objects, location, size) # {}
           /\ \A bin_no \in FindBin(objects, location, size) :
                  LightestBin(objects, location, bin_no)
           /\ \A other \in Sizes :
                  FindBin(objects, location, other) = FindBin(objects, location, size)
    /\ BalancedAdd =>
           LET item == objects[Len(objects)]
           IN  \A location \in StoredLocations :
                   location.object_id = item.location_id =>
                       LightestBin(Before(objects), location, item.bin_no)

\* The balancer has just placed an item in the one lightest bin of a
\* location whose bins carried different weights.
C1_Witness ==
    /\ BalancedAdd
    /\ \E location \in StoredLocations :
           /\ location.object_id = objects[Len(objects)].location_id
           /\ location.num_bins = 2
           /\ WeightOfBin(Before(objects), location, 1)
                  # WeightOfBin(Before(objects), location, 2)

(***************************************************************************)
(* The address grammar of the specification, NAME or NAME/BIN, read off an *)
(* address without the resolver's regular expression.                      *)
(***************************************************************************)
HasSlash(value) == \E i \in 1..Len(value) : value[i] = "/"

FirstSlash(value) ==
    CHOOSE i \in 1..Len(value) :
        value[i] = "/" /\ \A j \in 1..(i - 1) : value[j] # "/"

\* NAME: what stands before the first slash.
NamePart(value) ==
    IF HasSlash(value) THEN SubSeq(value, 1, FirstSlash(value) - 1) ELSE value

\* BIN: what stands after the first slash.
BinPart(value) == SubSeq(value, FirstSlash(value) + 1, Len(value))

\* BIN is a decimal number of the grammar: digits, the first of them not 0.
DecimalBin(value) ==
    /\ HasSlash(value)
    /\ BinPart(value) # <<>>
    /\ \A i \in 1..Len(BinPart(value)) : BinPart(value)[i] \in Digits
    /\ BinPart(value)[1] # "0"

\* The stored locations that NAME matches.
Matching(value) ==
    {location \in StoredLocations : PhraseMatch(location.name, NamePart(value))}

\* A failed command leaves the store as it found it, so every store is
\* reached by a command that did not fail: the resolver is examined on all
\* addresses there.
InNewStore == last.err = "none"

\* The last command resolved an address.
Resolved == last.cmd \in {"add", "quickadd"}

\* The item the last add stored.
AddedItem == objects[Len(objects)]

\* C2: every stored item's bin_no is one of the bins 1..num_bins of the
\* location its location_id refers to.
C2_BinWithinLocation ==
    \A item \in StoredItems :
        \E location \in StoredLocations :
            /\ location.object_id = item.location_id
            /\ 1 <= item.bin_no
            /\ item.bin_no <= location.num_bins

\* An undo has left a store in which an item given with an explicit BIN
\* sits in the last bin of its location.
C2_Witness ==
    /\ last.cmd = "undo"
    /\ \E item \in StoredItems : \E location \in StoredLocations :
           /\ location.object_id = item.location_id
           /\ location.num_bins = 2
           /\ item.bin_no = 2

\* C3: every stored item's location_id is the object_id of exactly one
\* location that is in the store, also after any number of undos.
C3_LocationResolves ==
    \A item \in StoredItems :
        Cardinality({o \in StoredLocations : o.object_id = item.location_id}) = 1

\* An undo has removed the last record of a store and left a location and
\* an item that refers to it.
C3_Witness ==
    /\ last.cmd = "undo"
    /\ StoredItems # {}
    /\ Len(objects) < 3

\* C4: in every store, an address whose NAME matches no stored location
\* fails with the location-not-found error, one whose NAME matches two or
\* more fails with the ambiguous-location error, and an address resolves
\* only when its NAME matches exactly one location, to that location; so
\* does the address the last add or quickadd was given.
C4_ResolvesByNumberOfMatches ==
    /\ InNewStore => \A value \in Addresses :
           LET location_bin == convert(objects, value)
               matching == Matching(value)
           IN  /\ (NamePart(value) # <<>> /\ matching = {})
                      => location_bin.err = "NotFound"
               /\ Cardinality(matching) >= 2 => location_bin.err = "Ambiguous"
               /\ location_bin.err = "none" => matching = {location_bin.location}
    /\ Resolved =>
           LET matching == Matching(last.arg)
           IN  /\ (NamePart(last.arg) # <<>> /\ matching = {})
                      => last.err = "NotFound"
               /\ Cardinality(matching) >= 2 => last.err = "Ambiguous"
               /\ last.err = "none" => Cardinality(matching) = 1
               /\ (last.cmd = "add" /\ last.err = "none")
                      => \E location \in matching :
                             AddedItem.location_id = location.object_id

\* An add has failed because its NAME matches two stored locations.
C4_Witness ==
    /\ last.cmd = "add"
    /\ last.err = "Ambiguous"
    /\ Cardinality(Matching(last.arg)) = 2

\* C5: in every store, an address NAME/BIN whose NAME matches exactly one
\* location and whose BIN is a decimal number greater than that location's
\* num_bins fails with the bin-range error, and a BIN that the resolver
\* returns lies in 1..num_bins; so it is for the address the last add or
\* quickadd was given, and the item of an add with a decimal BIN is stored
\* in that bin.
C5_BinBeyondLocationFails ==
    /\ InNewStore => \A value \in Addresses :
           LET location_bin == convert(objects, value)
               matching == Matching(value)
           IN  /\ ( /\ Cardinality(matching) = 1
                    /\ DecimalBin(value)
                    /\ \A location \in matching :
                           ToInt(BinPart(value)) > location.num_bins )
                      => location_bin.err = "BinRange"
               /\ (location_bin.err = "none" /\ location_bin.bin # None)
                      => /\ 1 <= ToInt(location_bin.bin)
                         /\ ToInt(location_bin.bin) <= location_bin.location.num_bins
    /\ (Resolved /\ DecimalBin(last.arg)) =>
           LET matching == Matching(last.arg)
               bin_no == ToInt(BinPart(last.arg))
           IN  /\ ( /\ Cardinality(matching) = 1
                    /\ \A location \in matching : bin_no > location.num_bins )
                      => last.err = "BinRange"
               /\ last.err = "none"
                      => \A location \in matching :
                             1 <= bin_no /\ bin_no <= location.num_bins
               /\ (last.cmd = "add" /\ last.err = "none")
                      => AddedItem.bin_no = bin_no

\* An add has failed because its BIN is beyond the bins of the one location
\* its NAME matches.
C5_Witness ==
    /\ last.cmd = "add"
    /\ last.err = "BinRange"
    /\ DecimalBin(last.arg)
    /\ Cardinality(Matching(last.arg)) = 1

\* BIN is 0, starts with 0 or is not all digits.
MalformedBin(value) ==
    /\ HasSlash(value)
    /\ BinPart(value) # <<>>
    /\ ~DecimalBin(value)

\* C6: an add or quickadd whose address NAME/BIN has a BIN that is 0, starts
\* with 0 or is not all digits fails with the address syntax error and is
\* never taken as the bare NAME or as a shorter BIN; stated for the NAMEs
\* that match one stored location, where no other error can stand in.
C6_MalformedBinIsSyntaxError ==
    ( /\ Resolved
      /\ MalformedBin(last.arg)
      /\ Cardinality(Matching(last.arg)) = 1 )
        => last.err = "Syntax"

\* C7: a step in which a command fails with an address syntax,
\* location-not-found, ambiguous-location, bin-range or validation error
\* adds nothing to the store and commits nothing.
C7_FailureLeavesStore ==
    [][last'.err # "none" => (objects' = objects /\ journal' = journal)]_vars

\* A quickadd has failed with the bin-range error on a store that holds an
\* item.
C7_Witness ==
    /\ last.cmd = "quickadd"
    /\ last.err = "BinRange"
    /\ StoredItems # {}

(***************************************************************************)
(* The listing.                                                            *)
(***************************************************************************)
\* The row of the i-th stored item: the item with the name of its location.
ExpectedRow(i) ==
    LET item == SelectItems(objects)[i]
        location == CHOOSE o \in StoredLocations : o.object_id = item.location_id
    IN  [location_name |-> location.name, item_bin_no |-> item.bin_no,
         item_name |-> item.name, item_size |-> item.size]

\* The tuple (location name, bin number, lower-cased item name) of r1 is
\* equal to that of r2.
SameTuple(r1, r2) ==
    /\ r1.location_name = r2.location_name
    /\ r1.item_bin_no = r2.item_bin_no
    /\ Lower(r1.item_name) = Lower(r2.item_name)

\* The tuple of r1 is at most that of r2.
TupleAtMost(r1, r2) ==
    \/ StrLess(r1.location_name, r2.location_name)
    \/ /\ r1.location_name = r2.location_name
       /\ r1.item_bin_no < r2.item_bin_no
    \/ /\ r1.location_name = r2.location_name
       /\ r1.item_bin_no = r2.item_bin_no
       /\ ~StrLess(Lower(r2.item_name), Lower(r1.item_name))

\* C8: the rows items prints are exactly one row per stored item, joined
\* with the name of its location, in non-decreasing order of the tuple
\* (location name, bin number, lower-cased item name), rows of equal tuples
\* in the order of their items in the store.
C8_ListingSortedAndStable ==
    last.cmd = "items" =>
        /\ Len(out) = Cardinality(StoredItems)
        /\ \E p \in Permutations(1..Len(out)) :
               /\ \A i \in 1..Len(out) : out[i] = ExpectedRow(p[i])
               /\ \A i, j \in 1..Len(out) :
                      i < j => /\ TupleAtMost(out[i], out[j])
                               /\ SameTuple(out[i], out[j]) => p[i] < p[j]

\* items has printed the second stored item before the first: they share
\* location and bin, and their names are in order only once lower-cased.
C8_Witness ==
    /\ last.cmd = "items"
    /\ Len(out) = 2
    /\ out[1] = ExpectedRow(2)
    /\ out[1].location_name = out[2].location_name
    /\ out[1].item_bin_no = out[2].item_bin_no
    /\ StrLess(out[2].item_name, out[1].item_name)

(***************************************************************************)
(* The quickadd session.                                                   *)
(***************************************************************************)
\* The number of lines of the input that stand before its first empty line.
LinesBeforeStop(stdin) ==
    CHOOSE k \in 0..Len(stdin) :
        /\ \A i \in 1..k : stdin[i] # <<>>
        /\ (k = Len(stdin) \/ stdin[k + 1] = <<>>)

\* What a session that has ended has done: one item of its location for
\* each line before the first empty line, and no line read beyond that one.
EndedAtFirstStop ==
    LET k == LinesBeforeStop(session.stdin)
    IN  /\ session.made = k
        /\ Len(objects) = session.start + k
        /\ session.pos = IF k < Len(session.stdin) THEN k + 1 ELSE k
        /\ \A i \in 1..k :
               /\ objects[session.start + i].type = "item"
               /\ objects[session.start + i].location_id = session.location.object_id

\* C9: a quickadd session over a finite input reaches Terminated, and when
\* it has, it has stopped at the first empty line or at the end of the
\* input, having created one item for each line before that point and none
\* after it: none at all when the first line is empty or the input is empty.
C9_SessionEndsAtFirstStop ==
    /\ [](pc = "Terminated" => EndedAtFirstStop)
    /\ (pc = "Prompting" ~> pc = "Terminated")

\* A session has ended at an empty first line and left a line unread.
C9_Witness ==
    /\ pc = "Terminated"
    /\ Len(session.stdin) = 2
    /\ session.stdin[1] = <<>>
    /\ session.stdin[2] # <<>>
    /\ session.pos = 1
    /\ session.made = 0

\* C10: in a quickadd session started without BIN, whenever the next line
\* is about to be read or the session has ended, every item of the session
\* is committed by a commit of its own, and the bin of the item of line k
\* is a lightest bin of the location in the store that holds the items of
\* lines 1..k-1.
C10_LineCommittedBeforeNext ==
    (pc \in {"Prompting", "Terminated"} /\ session.bin = None) =>
        /\ Len(journal) >= session.made
        /\ Committed(journal, objects) = objects
        /\ \A k \in 1..session.made :
               /\ journal[Len(journal) - session.made + k] = session.start + k
               /\ LightestBin(SubSeq(objects, 1, session.start + k - 1),
                              session.location,
                              objects[session.start + k].bin_no)

\* A session without BIN has stored two lines in a location of two bins:
\* the second line's item went to the bin the first had left empty.
C10_Witness ==
    /\ pc = "Terminated"
    /\ session.bin = None
    /\ session.made = 2
    /\ session.location.num_bins = 2
    /\ objects[session.start + 1].bin_no # objects[session.start + 2].bin_no


(***************************************************************************)
(* The worked example of the balancer: a location of two bins and two      *)
(* items of size S.  Shelf, Widget and Gadget are the names "a", "a" and   *)
(* "B" of the inputs.                                                      *)
(***************************************************************************)
Shelf == <<"a">>

Widget == <<"a">>

Gadget == <<"B">>

\* The lines printed for the rows.
Printed(rows) == [i \in 1..Len(rows) |-> print_item(rows[i])]

\* What items prints on the store objs.
Listing(objs) == Printed(sorted(ItemRows(objs)))

\* The store holds Shelf with two bins and then the records named by names,
\* all of size S, and nothing else.
ShelfHolds(objs, names) ==
    /\ Len(objs) = 1 + Len(names)
    /\ objs[1].type = "location" /\ objs[1].name = Shelf /\ objs[1].num_bins = 2
    /\ \A i \in 1..Len(names) :
           /\ objs[i + 1].type = "item"
           /\ objs[i + 1].location_id = objs[1].object_id
           /\ objs[i + 1].name = names[i]
           /\ objs[i + 1].size = "S"

\* The step of add Shelf Gadget, taken right after add Shelf Widget on the
\* store that add-location Shelf 2 made from the empty one.
GadgetAddedAfterWidget ==
    /\ BalancedAdd /\ last.arg = Shelf
    /\ journal = <<1, 2>>
    /\ ShelfHolds(objects, <<Widget>>)
    /\ last'.cmd = "add" /\ last'.err = "none" /\ last'.auto /\ last'.arg = Shelf
    /\ ShelfHolds(objects', <<Widget, Gadget>>)

\* C11 as stated: after add-location Shelf 2, add Shelf Widget and add Shelf
\* Gadget on an empty store, both of size S and without BIN, Widget is in
\* bin 1 and Gadget in bin 2, and items prints "Shelf/1: Widget (S)" and
\* then "Shelf/2: Gadget (S)".
C11_WidgetInBinOne ==
    [][GadgetAddedAfterWidget =>
          /\ objects'[2].bin_no = 1
          /\ objects'[3].bin_no = 2
          /\ Listing(objects') =
                 << Shelf \o <<"/", "1", ":", " ">> \o Widget \o <<" ", "(", "S", ")">>,
                    Shelf \o <<"/", "2", ":", " ">> \o Gadget \o <<" ", "(", "S", ")">> >>]_vars

\* C11: after add-location Shelf 2, add Shelf Widget and add Shelf Gadget on
\* an empty store, both of size S and without BIN, Widget is in one of the
\* two bins and Gadget in the other one, and items prints the item of bin 1
\* as "Shelf/1: NAME (S)" and then the item of bin 2 as "Shelf/2: NAME (S)".
C11_WidgetAndGadgetInDifferentBins ==
    [][GadgetAddedAfterWidget =>
          /\ {objects'[2].bin_no, objects'[3].bin_no} = {1, 2}
          /\ Listing(objects') =
                 [b \in 1..2 |->
                     LET item == CHOOSE o \in {objects'[2], objects'[3]} : o.bin_no = b
                     IN  Shelf \o <<"/">> \o Str(b) \o <<":", " ">> \o item.name
                             \o <<" ", "(", "S", ")">>]]_vars

\* items has listed the store of the example with Widget in bin 2: Gadget
\* is printed first.
C11_Witness ==
    /\ last.cmd = "items"
    /\ journal = <<1, 2, 3>>
    /\ ShelfHolds(objects, <<Widget, Gadget>>)
    /\ objects[2].bin_no = 2 /\ objects[3].bin_no = 1
    /\ Printed(out) =
           << Shelf \o <<"/", "1", ":", " ">> \o Gadget \o <<" ", "(", "S", ")">>,
              Shelf \o <<"/", "2", ":", " ">> \o Widget \o <<" ", "(", "S", ")">> >>


(***************************************************************************)
(* add-location, undo and the listings.                                    *)
(***************************************************************************)
\* The store after the step is the store before it and one more record,
\* committed by one more commit.
OneRecordCommitted ==
    /\ Len(objects') = Len(objects) + 1
    /\ Before(objects') = objects
    /\ journal' = Append(journal, Len(objects'))

\* C12: add-location NAME NUM_BINS with NUM_BINS < 1 fails with a validation
\* error and leaves the store as it was; with NUM_BINS >= 1 it succeeds, adds
\* exactly one record, a location of that name and number of bins, commits
\* once, and leaves every record the store had as it was.
C12_AddLocationValidatesNumberOfBins ==
    [][\A name \in LocationNames, number_of_bins \in NumBinsArgs :
          add_location(name, number_of_bins) =>
              /\ last'.cmd = "add-location"
              /\ IF number_of_bins < 1
                 THEN /\ last'.err = "Validation"
                      /\ objects' = objects
                      /\ journal' = journal
                 ELSE /\ last'.err = "none"
                      /\ OneRecordCommitted
                      /\ LET made == objects'[Len(objects')]
                         IN  /\ made.type = "location"
                             /\ made.name = name
                             /\ made.num_bins = number_of_bins
                             /\ \A i \in 1..Len(objects) :
                                    objects[i].object_id # made.object_id]_vars

\* add-location was refused on a store that holds a location and an item.
C12_Witness ==
    /\ last.cmd = "add-location"
    /\ last.err = "Validation"
    /\ StoredLocations # {}
    /\ StoredItems # {}


\* The step of an add or add-location that succeeded.
Added == last'.cmd \in {"add", "add-location"} /\ last'.err = "none" /\ pc' = "Ready"

\* The step of an undo taken right after an add or add-location that
\* succeeded.
UndoneRightAfter ==
    /\ pc = "Ready"
    /\ last.cmd \in {"add", "add-location"} /\ last.err = "none"
    /\ last'.cmd = "undo"

\* C13: an undo right after a successful add or add-location gives back the
\* store of before it: what undo makes of the store a successful add or
\* add-location leaves is the store the command started on, with its
\* listings, and the step of an undo that follows one takes away the one
\* record and the one commit it made.
C13_UndoRevertsLastAdd ==
    [][/\ Added =>
             /\ StoreUndo(journal', objects') = objects
             /\ StoreUndoJournal(journal') = journal
             /\ Listing(StoreUndo(journal', objects')) = Listing(objects)
       /\ UndoneRightAfter =>
             /\ objects' = Before(objects)
             /\ journal' = Before(journal)]_vars

\* An undo has left a store that holds a location and an item.
C13_Witness ==
    /\ last.cmd = "undo"
    /\ journal = <<1, 2>>
    /\ Len(objects) = 2
    /\ StoredItems # {}


\* The lines locations prints for the store objs.
LocationLines(objs) ==
    [i \in 1..Len(SelectLocations(objs)) |->
        [name |-> SelectLocations(objs)[i].name,
         num_bins |-> SelectLocations(objs)[i].num_bins]]

\* C14: items and locations leave the records and the commits of the store
\* as they were, and what either prints is decided by the store alone, so
\* that an items run right after an items run prints the same lines again.
C14_ListingsReadOnly ==
    [][/\ last'.cmd \in {"items", "locations"} =>
             /\ objects' = objects
             /\ journal' = journal
             /\ last'.err = "none"
       /\ last'.cmd = "items" =>
             /\ Printed(out') = Listing(objects)
             /\ Printed(out') = Listing(objects')
       /\ last'.cmd = "locations" => out' = LocationLines(objects')
       /\ (pc = "Ready" /\ last.cmd = "items" /\ last'.cmd = "items") =>
             out' = out]_vars

\* items has listed two items of two locations.
C14_Witness ==
    /\ last.cmd = "items"
    /\ Len(out) = 2
    /\ Cardinality(StoredLocations) = 2
    /\ out[1].location_name # out[2].location_name


(***************************************************************************)
(* The commits of a command.                                               *)
(***************************************************************************)
\* The commits made since the quickadd session started: a commit records the
\* number of records of the store, and each commit of the session follows a
\* store.add of its own.
SessionCommits(jrnl, sssn) ==
    Cardinality({i \in 1..Len(jrnl) : jrnl[i] > sssn.start})

\* The step that ends a quickadd session.
SessionEnds == pc = "Prompting" /\ pc' = "Terminated"

\* The step of a quickadd session that takes a line as an item.
LineAccepted == pc = "Prompting" /\ session'.made = session.made + 1

\* C15 as stated: every successful add and add-location makes one store.add
\* and then one store.commit, and every quickadd invocation that creates
\* items has made exactly one store.commit by its end, however many items it
\* created.
C15_OneCommitPerInvocation ==
    [][/\ Added => OneRecordCommitted
       /\ (SessionEnds /\ session'.made >= 1) =>
             SessionCommits(journal', session') = 1]_vars

\* C15: every successful add and add-location makes one store.add and then
\* one store.commit; a quickadd invocation makes one store.add and then one
\* store.commit for each line it takes as an item, so that by its end it
\* has made as many commits as items, and none for the line or the end of
\* input that stops it.
C15_OneCommitPerItem ==
    [][/\ Added => OneRecordCommitted
       /\ LineAccepted => OneRecordCommitted
       /\ (pc = "Prompting" /\ ~LineAccepted) =>
             (objects' = objects /\ journal' = journal)
       /\ SessionEnds =>
             /\ SessionCommits(journal', session') = session'.made
             /\ Len(objects') = session'.start + session'.made]_vars

\* A quickadd session has ended after two items and two commits.
C15_Witness ==
    /\ pc = "Terminated"
    /\ session.made = 2
    /\ SessionCommits(journal, session) = 2
    /\ Len(objects) = session.start + 2


(***************************************************************************)
(* add and quickadd with a BIN.                                            *)
(***************************************************************************)
\* The address gives a BIN: something stands after its first slash.
GivesBin(value) == HasSlash(value) /\ BinPart(value) # <<>>

\* The step added one item, committed it and left the rest of the store:
\* an item at the one location that the NAME of value matches, in the BIN
\* that value gives, with the given name and size.
CreatedAsGiven(value, name, size) ==
    /\ OneRecordCommitted
    /\ LET made == objects'[Len(objects')]
       IN  /\ made.type = "item"
           /\ \E location \in Matching(value) :
                  /\ Matching(value) = {location}
                  /\ made.location_id = location.object_id
           /\ Str(made.bin_no) = BinPart(value)
           /\ made.name = name
           /\ made.size = size

\* C16: a successful add LOCATION/BIN NAME SIZE, and each line taken by a
\* quickadd session that was started with LOCATION/BIN, creates exactly one
\* item, at the resolved location, in the given BIN whatever the bins hold,
\* with the given name and size, and leaves every record the store had.
C16_ExplicitBinIsKept ==
    [][/\ \A value \in AddressArgs, item \in ItemArgs :
             ( /\ GivesBin(value)
               /\ AddCommand(value, item[1], item[2])
               /\ last'.err = "none" ) =>
                 CreatedAsGiven(value, item[1], item[2])
       /\ (LineAccepted /\ GivesBin(last.arg)) =>
             LET match == MatchLine(session.stdin[session.pos + 1])
             IN  CreatedAsGiven(last.arg, match.item, match.size)]_vars


(***************************************************************************)
(* The lines of quickadd.                                                  *)
(***************************************************************************)
\* The line without the white space at its end, and at both ends.
RECURSIVE TrimRight(_)
TrimRight(line) ==
    IF line # <<>> /\ line[Len(line)] = " "
    THEN TrimRight(SubSeq(line, 1, Len(line) - 1))
    ELSE line

RECURSIVE Trim(_)
Trim(line) ==
    IF line # <<>> /\ line[1] = " " THEN Trim(Tail(line)) ELSE TrimRight(line)

\* The last token of the line that white space delimits, <<>> if it has
\* none, and the rest of the line: what stands before that token.
LastToken(line) ==
    LET trimmed == TrimRight(line)
        first == CHOOSE k \in 1..(Len(trimmed) + 1) :
                     /\ \A i \in k..Len(trimmed) : trimmed[i] # " "
                     /\ (k = 1 \/ trimmed[k - 1] = " ")
    IN  [token |-> SubSeq(trimmed, first, Len(trimmed)),
         rest |-> SubSeq(trimmed, 1, first - 1)]

\* The last token of the line is one size letter.
EndsWithSizeToken(line) ==
    Len(LastToken(line).token) = 1 /\ LastToken(line).token[1] \in Sizes

\* The line ends with white space and then one size letter, the last
\* character of the line.
EndsWithSpaceAndSize(line) ==
    /\ Len(line) >= 2
    /\ line[Len(line)] \in Sizes
    /\ line[Len(line) - 1] = " "

\* The line that the step takes as an item.
LineTaken == session.stdin[session.pos + 1]

\* C17 as stated: for every line of quickadd that is not empty, if its last
\* token is one letter of S, M, L, X, the item has that size and the rest of
\* the line, trimmed, as its name, also when the line is that letter alone
\* or starts with white space; otherwise the item has size S and the whole
\* line as its name.
C17_SizeIsLastToken ==
    [][LineAccepted =>
          LET made == objects'[Len(objects')]
          IN  IF EndsWithSizeToken(LineTaken)
              THEN /\ made.size = LastToken(LineTaken).token[1]
                   /\ made.name = Trim(LastToken(LineTaken).rest)
              ELSE /\ made.size = "S"
                   /\ made.name = LineTaken]_vars

\* C17: for every line of quickadd that is not empty, if the line ends with
\* white space followed by one letter of S, M, L, X as its last character,
\* the item has that size and as its name the line up to that letter
\* without the white space before the letter, white space at the start of
\* the line kept; otherwise, also when the line is the letter alone or has
\* white space after the letter, the item has size S and the whole line as
\* its name.
C17_SizeFollowsWhiteSpace ==
    [][LineAccepted =>
          LET made == objects'[Len(objects')]
          IN  IF EndsWithSpaceAndSize(LineTaken)
              THEN /\ made.size = LineTaken[Len(LineTaken)]
                   /\ made.name = TrimRight(SubSeq(LineTaken, 1, Len(LineTaken) - 1))
              ELSE /\ made.size = "S"
                   /\ made.name = LineTaken]_vars

\* The line X alone was taken as an item named X of size S.
C17_Witness ==
    /\ session.stdin = << <<"X">> >>
    /\ session.made = 1
    /\ AddedItem.name = <<"X">>
    /\ AddedItem.size = "S"


(***************************************************************************)
(* Locations of the same name.                                             *)
(***************************************************************************)
\* The names that two or more locations of the store objs have.
SharedNames(objs) ==
    {objs[i].name : i \in {j \in 1..Len(objs) :
        /\ objs[j].type = "location"
        /\ \E k \in 1..Len(objs) :
               k # j /\ objs[k].type = "location" /\ objs[k].name = objs[j].name}}

\* The step of an add or quickadd command, with the address in last'.arg.
Addressed == AtPrompt /\ last'.cmd \in {"add", "quickadd"}

\* C18: add-location with a valid number of bins succeeds also for a name
\* that a stored location has; in every store where two or more locations
\* have the same name, every address with that name, with or without BIN,
\* resolves to the ambiguous-location error, and every add and quickadd
\* given such an address fails with it, stores nothing and starts no
\* session; a name stops being shared only by an undo.
C18_SharedNameIsAmbiguous ==
    [][/\ \A name \in LocationNames, number_of_bins \in 1..MaxBins :
             add_location(name, number_of_bins) =>
                 /\ last'.err = "none"
                 /\ objects'[Len(objects')].name = name
       /\ (objects' # objects /\ SharedNames(objects') # {}) =>
             \A value \in Addresses :
                 NamePart(value) \in SharedNames(objects') =>
                     convert(objects', value).err = "Ambiguous"
       /\ (Addressed /\ NamePart(last'.arg) \in SharedNames(objects)) =>
             /\ last'.err = "Ambiguous"
             /\ objects' = objects
             /\ journal' = journal
             /\ pc' = "Ready"
       /\ ~(SharedNames(objects) \subseteq SharedNames(objects')) =>
             last'.cmd = "undo"]_vars

\* Two locations are named a, and add a/1 has failed as ambiguous.
C18_Witness ==
    /\ SharedNames(objects) = {<<"a">>}
    /\ last.cmd = "add"
    /\ last.arg = <<"a", "/", "1">>
    /\ last.err = "Ambiguous"


(***************************************************************************)
(* The program run with addresses that give no BIN: every item is placed   *)
(* by the balancer.                                                        *)
(***************************************************************************)
\* The LOCATION arguments without a slash.
NameArgs == {value \in AddressArgs : ~HasSlash(value)}

BalancedNext ==
    \/ undo
    \/ \E name \in LocationNames, n \in NumBinsArgs : add_location(name, n)
    \/ \E value \in NameArgs, item \in ItemArgs :
           AddCommand(value, item[1], item[2])
    \/ \E value \in NameArgs, stdin \in Inputs :
           QuickAddCommand(value, stdin)
    \/ QuickAddEof
    \/ QuickAddEmptyLine
    \/ QuickAddLine

BalancedSpec == Init /\ [][BalancedNext]_vars

\* The items of the store that are at the location.
ItemsAt(location) == {item \in StoredItems : item.location_id = location.object_id}

\* How much heavier the heaviest bin of the location is than its lightest.
Spread(location) ==
    LET weights == {WeightOfBin(objects, location, b) : b \in 1..location.num_bins}
    IN  (CHOOSE w \in weights : \A v \in weights : w >= v)
            - (CHOOSE w \in weights : \A v \in weights : w <= v)

\* C19: when every item was placed by the balancer, the heaviest bin of a
\* location is never more than the weight of size X (3) heavier than its
\* lightest bin, and never more than the weight of size S (1) when all the
\* items of the location have size S.  Weights are in half units.
C19_BinsStayBalanced ==
    \A location \in StoredLocations :
        /\ Spread(location) <= SIZE_KEY["X"]
        /\ (\A item \in ItemsAt(location) : item.size = "S") =>
               Spread(location) <= SIZE_KEY["S"]

\* The balancer has put an item of size X into one bin of two and a second
\* item into the other one.
C19_Witness ==
    /\ last.cmd \in {"add", "quickadd"}
    /\ \E location \in StoredLocations :
           /\ location.num_bins = 2
           /\ Cardinality(ItemsAt(location)) = 2
           /\ \E item \in ItemsAt(location) : item.size = "X"
           /\ WeightOfBin(objects, location, 1) # 0
           /\ WeightOfBin(objects, location, 2) # 0

=============================================================================
